---- MODULE Spec2Model ----
(***************************************************************************)
(* A model of the DPLL SAT solver of spicy-sat-solver: the DIMACS parser   *)
(* (src/formula/parser.rs), the assignment engine with unit propagation    *)
(* and undo (src/formula.rs) and the search driver                         *)
(* (src/formula/solver.rs).                                                *)
(*                                                                         *)
(* Conventions.  A Rust String is a sequence of one-character strings.     *)
(* A Vec is a sequence; the Rust index i is the sequence index i + 1, and  *)
(* the indices the program stores (variable ids, clause indices) keep      *)
(* their Rust value.  Option<T> is None == << >> or Some(x) == << x >>.    *)
(* A value of type Result, and the state threaded through a call that may  *)
(* panic, is a record [tag, msg, value] with tag "Ok", "Err" or "Panic".   *)
(***************************************************************************)
EXTENDS Integers, Sequences, FiniteSets, TLC

\* ------------------------------------------------------------------ bounds

\* Largest size of an enumerated formula: its number of variables plus its
\* number of literal occurrences.
MaxSize == 7
\* Largest length, in characters, of an enumerated raw clause section.
RawLen == 4
\* Largest number of tokens of an enumerated problem line.
HeaderLen == 5
\* Depth of nested inner calls at which the thread's stack is exhausted.
\* A cascade deeper than the number of literal occurrences of the formula has
\* some literal active twice on the call stack, and then it never returns.
StackDepth == 9

\* 0usize - 1 in a build without overflow checks: usize::MAX (2^64 - 1),
\* which is beyond TLC's integers; only its being past every index is used.
UsizeMax == 2147483647

\* ------------------------------------------------------------------ values

None == << >>
Some(x) == << x >>

Ok(v) == [tag |-> "Ok", msg |-> "", value |-> v]
Err(m) == [tag |-> "Err", msg |-> m, value |-> None]
Panic(m) == [tag |-> "Panic", msg |-> m, value |-> None]

Min(a, b) == IF a < b THEN a ELSE b

\* ------------------------------------------------------------------ literals

\* Literal { id, negated }
Literal(id, negated) == [id |-> id, negated |-> negated]

\* Literal::from_var: id = |var| - 1 in usize arithmetic.  For var = 0 the
\* subtraction overflows: a panic with overflow checks, usize::MAX without.
from_var(var, overflow_checks) ==
    IF var = 0
    THEN IF overflow_checks
         THEN Panic("attempt to subtract with overflow")
         ELSE Ok(Literal(UsizeMax, FALSE))
    ELSE Ok(Literal((IF var < 0 THEN -var ELSE var) - 1, var < 0))

\* impl Not for Literal
Not(lit) == Literal(lit.id, ~lit.negated)

\* Vec<Literal>::contains
Contains(clause, lit) == \E k \in 1..Len(clause) : clause[k] = lit

\* ------------------------------------------------------------------ strings

Digits == <<"0", "1", "2", "3", "4", "5", "6", "7", "8", "9">>

IsDigit(c) == \E d \in 1..10 : Digits[d] = c

DigitValue(c) == (CHOOSE d \in 1..10 : Digits[d] = c) - 1

\* The characters with the Unicode property White_Space that a string of this
\* module can hold: U+0009 to U+000D (tab, line feed, vertical tab, form feed,
\* carriage return), the space, U+0085, U+00A0 and U+1680.  The vertical tab,
\* U+0085, U+00A0 and U+1680 have no escape and stand as themselves between
\* the quotes.  The other White_Space characters (U+2000 to U+200A, U+2028,
\* U+2029, U+202F, U+205F, U+3000) cannot be written in a string here and
\* are in no input.
WhiteSpace == {"\t", "\n", "", "\f", "\r", " ", "", " ", " "}

\* char::is_whitespace
IsWhitespace(c) == c \in WhiteSpace

\* A String as one value: the characters of s run together
RECURSIVE to_string(_)
to_string(s) == IF Len(s) = 0 THEN "" ELSE s[1] \o to_string(Tail(s))

\* format!("Illegal variable '{}'", v)
illegal_variable(v) == "Illegal variable '" \o to_string(v) \o "'"

\* str::trim_end
RECURSIVE trim_end(_)
trim_end(s) ==
    IF Len(s) > 0 /\ IsWhitespace(s[Len(s)])
    THEN trim_end(SubSeq(s, 1, Len(s) - 1))
    ELSE s

\* str::split_whitespace: the maximal runs of non-whitespace characters
RECURSIVE split_whitespace(_)
split_whitespace(s) ==
    IF Len(s) = 0 THEN << >>
    ELSE IF IsWhitespace(s[1]) THEN split_whitespace(Tail(s))
    ELSE LET ends == {k \in 1..Len(s) : IsWhitespace(s[k])}
             stop == IF ends = {} THEN Len(s) + 1
                     ELSE CHOOSE k \in ends : \A j \in ends : k <= j
         IN  <<SubSeq(s, 1, stop - 1)>> \o split_whitespace(SubSeq(s, stop, Len(s)))

\* str::split(" 0"): the pieces between the non-overlapping occurrences of
\* the two characters space, zero, found from the left
RECURSIVE split_space_zero(_)
split_space_zero(s) ==
    LET hits == {k \in 1..(Len(s) - 1) : s[k] = " " /\ s[k + 1] = "0"}
    IN  IF hits = {} THEN <<s>>
        ELSE LET k == CHOOSE h \in hits : \A j \in hits : h <= j
             IN  <<SubSeq(s, 1, k - 1)>> \o split_space_zero(SubSeq(s, k + 2, Len(s)))

\* The value of a non-empty run of digits
RECURSIVE digits_value(_)
digits_value(s) ==
    IF Len(s) = 0 THEN 0
    ELSE 10 * digits_value(SubSeq(s, 1, Len(s) - 1)) + DigitValue(s[Len(s)])

AllDigits(s) == Len(s) > 0 /\ \A k \in 1..Len(s) : IsDigit(s[k])

\* str::parse::<isize>: an optional sign, then one or more digits
parse_isize(s) ==
    IF Len(s) > 0 /\ s[1] \in {"+", "-"}
    THEN IF AllDigits(Tail(s))
         THEN Some(IF s[1] = "-" THEN -digits_value(Tail(s)) ELSE digits_value(Tail(s)))
         ELSE None
    ELSE IF AllDigits(s) THEN Some(digits_value(s)) ELSE None

\* str::parse::<usize>: an optional plus sign, then one or more digits
parse_usize(s) ==
    IF Len(s) > 0 /\ s[1] = "+"
    THEN IF AllDigits(Tail(s)) THEN Some(digits_value(Tail(s))) ELSE None
    ELSE IF AllDigits(s) THEN Some(digits_value(s)) ELSE None

\* BufRead::lines with find(|l| !l.starts_with('c')): from position pos
\* (1-based), the first line that does not start with c, and the cursor's
\* position after it; found is FALSE when the lines run out.  A line ends at
\* a line feed, or at the end of the text; the line feed is no part of the
\* line, and neither is one carriage return just before the line feed.
RECURSIVE find_problem_line(_, _)
find_problem_line(text, pos) ==
    IF pos > Len(text) THEN [found |-> FALSE, line |-> << >>, pos |-> pos]
    ELSE LET nls  == {k \in pos..Len(text) : text[k] = "\n"}
             stop == IF nls = {} THEN Len(text) + 1
                     ELSE CHOOSE k \in nls : \A j \in nls : k <= j
             last == IF nls # {} /\ stop > pos /\ text[stop - 1] = "\r"
                     THEN stop - 2 ELSE stop - 1
             line == SubSeq(text, pos, last)
             next == Min(stop + 1, Len(text) + 1)
         IN  IF Len(line) > 0 /\ line[1] = "c"
             THEN find_problem_line(text, next)
             ELSE [found |-> TRUE, line |-> line, pos |-> next]

\* ------------------------------------------------------------------ formula
\* struct Formula is a record with the fields clauses (each << Clause, bool >>),
\* assignment, clause_indices (each entry << clause_idx, negated >>),
\* assign_history, remaining_clauses, unsolvable, next_literal_id.

\* Assignment::new
Assignment_new(num_vars) == [id \in 1..num_vars |-> None]

\* Assignment::assigned
assigned(assignment, lit) == assignment[lit.id + 1] = Some(lit.negated)

\* Clause::solved
solved(clause, f) == \E k \in 1..Len(clause) : assigned(f.assignment, clause[k])

\* ClauseIter: the positions of the literals whose negation is not assigned
ClauseIter(clause, f) ==
    {k \in 1..Len(clause) : ~assigned(f.assignment, Not(clause[k]))}

\* Clause::num_literals
num_literals(clause, f) == Cardinality(ClauseIter(clause, f))

\* clause.iter(formula).next().unwrap(), called where num_literals is 1
iter_next(clause, f) ==
    LET live == ClauseIter(clause, f)
    IN  clause[CHOOSE k \in live : \A j \in live : k <= j]

\* Clause::get_unit_literal
get_unit_literal(clause) == IF Len(clause) = 1 THEN Some(clause[1]) ELSE None

\* Formula::assign::inner and its for loop from index i on.  depth counts
\* the active inner calls.
RECURSIVE inner(_, _, _), inner_loop(_, _, _, _)
inner(f, lit, depth) ==
    IF depth > StackDepth THEN Panic("stack overflow")
    ELSE inner_loop(
            [f EXCEPT !.assignment[lit.id + 1] = Some(lit.negated),
                      !.assign_history[Len(f.assign_history)] = Append(@, lit)],
            lit, 0, depth)

inner_loop(f, lit, i, depth) ==
    IF i >= Len(f.clause_indices[lit.id + 1]) THEN Ok(f)
    ELSE LET clause_idx == f.clause_indices[lit.id + 1][i + 1][1]
             negated    == f.clause_indices[lit.id + 1][i + 1][2]
         IN  IF clause_idx >= Len(f.clauses) THEN Panic("index out of bounds")
             ELSE IF lit.negated # negated
             THEN LET clause == f.clauses[clause_idx + 1][1]
                      n      == num_literals(clause, f)
                  IN  IF n = 0 THEN Ok([f EXCEPT !.unsolvable = TRUE])
                      ELSE IF n = 1
                      THEN LET r == inner(f, iter_next(clause, f), depth + 1)
                           IN  IF r.tag # "Ok" THEN r
                               ELSE inner_loop(r.value, lit, i + 1, depth)
                      ELSE inner_loop(f, lit, i + 1, depth)
             ELSE IF ~f.clauses[clause_idx + 1][2]
             THEN inner_loop(
                     [f EXCEPT !.clauses[clause_idx + 1][2] = TRUE,
                               !.remaining_clauses = @ - 1],
                     lit, i + 1, depth)
             ELSE inner_loop(f, lit, i + 1, depth)

\* Formula::assign
assign(f, lit) ==
    inner([f EXCEPT !.next_literal_id = lit.id + 1,
                    !.assign_history = Append(@, << >>)],
          lit, 1)

\* Formula::assign::inner run from a Formula whose unsolvable is false up to
\* the first execution of formula.unsolvable = true: the same steps as inner,
\* cut at that statement in whichever active call executes it
RECURSIVE inner_until(_, _, _), inner_until_loop(_, _, _, _)
inner_until(f, lit, depth) ==
    IF depth > StackDepth THEN Panic("stack overflow")
    ELSE inner_until_loop(
            [f EXCEPT !.assignment[lit.id + 1] = Some(lit.negated),
                      !.assign_history[Len(f.assign_history)] = Append(@, lit)],
            lit, 0, depth)

inner_until_loop(f, lit, i, depth) ==
    IF i >= Len(f.clause_indices[lit.id + 1]) THEN Ok(f)
    ELSE LET clause_idx == f.clause_indices[lit.id + 1][i + 1][1]
             negated    == f.clause_indices[lit.id + 1][i + 1][2]
         IN  IF clause_idx >= Len(f.clauses) THEN Panic("index out of bounds")
             ELSE IF lit.negated # negated
             THEN LET clause == f.clauses[clause_idx + 1][1]
                      n      == num_literals(clause, f)
                  IN  IF n = 0 THEN Ok([f EXCEPT !.unsolvable = TRUE])
                      ELSE IF n = 1
                      THEN LET r == inner_until(f, iter_next(clause, f), depth + 1)
                           IN  IF r.tag # "Ok" \/ r.value.unsolvable THEN r
                               ELSE inner_until_loop(r.value, lit, i + 1, depth)
                      ELSE inner_until_loop(f, lit, i + 1, depth)
             ELSE IF ~f.clauses[clause_idx + 1][2]
             THEN inner_until_loop(
                     [f EXCEPT !.clauses[clause_idx + 1][2] = TRUE,
                               !.remaining_clauses = @ - 1],
                     lit, i + 1, depth)
             ELSE inner_until_loop(f, lit, i + 1, depth)

\* Formula::assign up to the first execution of formula.unsolvable = true
assign_until(f, lit) ==
    inner_until([f EXCEPT !.next_literal_id = lit.id + 1,
                          !.assign_history = Append(@, << >>)],
                lit, 1)

\* Formula::un_assign: the inner loop over clause_indices[lit.id], from i on
RECURSIVE un_assign_clauses(_, _, _)
un_assign_clauses(f, lit, i) ==
    IF i >= Len(f.clause_indices[lit.id + 1]) THEN Ok(f)
    ELSE LET clause_idx == f.clause_indices[lit.id + 1][i + 1][1]
             negated    == f.clause_indices[lit.id + 1][i + 1][2]
         IN  IF lit.negated = negated
             THEN IF clause_idx >= Len(f.clauses) THEN Panic("index out of bounds")
                  ELSE IF f.clauses[clause_idx + 1][2]
                          /\ ~solved(f.clauses[clause_idx + 1][1], f)
                  THEN un_assign_clauses(
                          [f EXCEPT !.clauses[clause_idx + 1][2] = FALSE,
                                    !.remaining_clauses = @ + 1],
                          lit, i + 1)
                  ELSE un_assign_clauses(f, lit, i + 1)
             ELSE un_assign_clauses(f, lit, i + 1)

\* Formula::un_assign: the loop over the popped group, from its k-th literal on
RECURSIVE un_assign_group(_, _, _)
un_assign_group(f, group, k) ==
    IF k > Len(group) THEN Ok(f)
    ELSE LET r == un_assign_clauses(
                     [f EXCEPT !.assignment[group[k].id + 1] = None], group[k], 0)
         IN  IF r.tag # "Ok" THEN r ELSE un_assign_group(r.value, group, k + 1)

\* An un_assign that reads the last undo group and leaves it on assign_history
un_assign_no_pop(f, lit) ==
    IF Len(f.assign_history) = 0
    THEN Panic("called Option::unwrap() on a None value")
    ELSE un_assign_group(
            [f EXCEPT !.next_literal_id = lit.id,
                      !.unsolvable = FALSE],
            f.assign_history[Len(f.assign_history)], 1)

\* Formula::un_assign
un_assign(f, lit) ==
    IF Len(f.assign_history) = 0
    THEN Panic("called Option::unwrap() on a None value")
    ELSE un_assign_group(
            [f EXCEPT !.next_literal_id = lit.id,
                      !.unsolvable = FALSE,
                      !.assign_history = SubSeq(@, 1, Len(@) - 1)],
            f.assign_history[Len(f.assign_history)], 1)

\* Formula::next_un_assigned: the scan from id on
RECURSIVE next_un_assigned_from(_, _)
next_un_assigned_from(f, id) ==
    IF id >= Len(f.assignment) THEN Panic("index out of bounds")
    ELSE IF f.assignment[id + 1] = None THEN Ok(Literal(id, FALSE))
    ELSE next_un_assigned_from(f, id + 1)

\* Formula::next_un_assigned
next_un_assigned(f) == next_un_assigned_from(f, f.next_literal_id)

\* Formula::simplify: the loop over the clauses, from index i on
RECURSIVE simplify_from(_, _)
simplify_from(f, i) ==
    IF i >= Len(f.clauses) THEN Ok(f)
    ELSE LET unit == get_unit_literal(f.clauses[i + 1][1])
         IN  IF unit = None THEN simplify_from(f, i + 1)
             ELSE LET r == assign(f, unit[1])
                  IN  IF r.tag # "Ok" THEN r ELSE simplify_from(r.value, i + 1)

\* Formula::simplify
simplify(f) == simplify_from(f, 0)

\* ------------------------------------------------------------------ parser

\* Formula::parse_dimacs, the loop over the tokens of one clause string from
\* the k-th token on: the clause so far, and whether it held a literal and
\* its complement (continue 'outer).
RECURSIVE parse_clause(_, _, _, _)
parse_clause(tokens, k, clause, overflow_checks) ==
    IF k > Len(tokens) THEN Ok([tautology |-> FALSE, clause |-> clause])
    ELSE IF parse_isize(tokens[k]) = None THEN Err(illegal_variable(tokens[k]))
    ELSE LET lit == from_var(parse_isize(tokens[k])[1], overflow_checks)
         IN  IF lit.tag # "Ok" THEN lit
             ELSE IF Contains(clause, Not(lit.value))
             THEN Ok([tautology |-> TRUE, clause |-> clause])
             ELSE parse_clause(tokens, k + 1, Append(clause, lit.value), overflow_checks)

\* Formula::parse_dimacs, the loop that pushes (clause_idx, lit.negated) to
\* clause_indices[lit.id] for the literals of a finished clause, from the k-th on
RECURSIVE index_clause(_, _, _, _)
index_clause(f, clause, k, clause_idx) ==
    IF k > Len(clause) THEN Ok(f)
    ELSE IF clause[k].id >= Len(f.clause_indices) THEN Panic("index out of bounds")
    ELSE index_clause(
            [f EXCEPT !.clause_indices[clause[k].id + 1] =
                          Append(@, <<clause_idx, clause[k].negated>>)],
            clause, k + 1, clause_idx)

\* Formula::parse_dimacs, the 'outer loop over take(num_clauses).enumerate()
\* of the pieces, from clause_idx on
RECURSIVE clause_loop(_, _, _, _, _)
clause_loop(f, pieces, clause_idx, num_clauses, overflow_checks) ==
    IF clause_idx >= num_clauses \/ clause_idx >= Len(pieces) THEN Ok(f)
    ELSE LET c == parse_clause(split_whitespace(pieces[clause_idx + 1]), 1, << >>,
                               overflow_checks)
         IN  IF c.tag # "Ok" THEN c
             ELSE IF c.value.tautology
             THEN clause_loop([f EXCEPT !.remaining_clauses = @ - 1],
                              pieces, clause_idx + 1, num_clauses, overflow_checks)
             ELSE LET r == index_clause(f, c.value.clause, 1, clause_idx)
                  IN  IF r.tag # "Ok" THEN r
                      ELSE clause_loop(
                              [r.value EXCEPT !.clauses = Append(@, <<c.value.clause, FALSE>>)],
                              pieces, clause_idx + 1, num_clauses, overflow_checks)

\* The Formula that parse_dimacs constructs before it reads the clauses
Formula_new(num_vars, num_clauses) ==
    [clauses           |-> << >>,
     assignment        |-> Assignment_new(num_vars),
     clause_indices    |-> [id \in 1..num_vars |-> << >>],
     assign_history    |-> << >>,
     remaining_clauses |-> num_clauses,
     unsolvable        |-> FALSE,
     next_literal_id   |-> 0]

\* Formula::parse_dimacs, from the clause section on
parse_clauses(text, pos, num_vars, num_clauses, overflow_checks) ==
    LET pieces == split_space_zero(trim_end(SubSeq(text, pos, Len(text))))
        r      == clause_loop(Formula_new(num_vars, num_clauses), pieces, 0,
                              num_clauses, overflow_checks)
    IN  IF r.tag # "Ok" THEN r
        ELSE IF Len(pieces) <= num_clauses THEN Err("Not enough clauses")
        ELSE IF pieces[num_clauses + 1] = << >> THEN simplify(r.value)
        ELSE Err("Too many clauses")

\* A parse_dimacs that does not look at the first token of the problem line
parse_dimacs_any_tag(text, overflow_checks) ==
    LET problem_line == find_problem_line(text, 1)
        params       == split_whitespace(problem_line.line)
    IN  IF ~problem_line.found THEN Err("Missing problem line")
        ELSE IF Len(params) # 4 THEN Err("Wrong number of parameters in problem line")
        ELSE IF params[2] # <<"c", "n", "f">>
        THEN Err("Only cnf-formatted inputs are currently allowed")
        ELSE IF parse_usize(params[3]) = None THEN Err("Third problem line parameter invalid")
        ELSE IF parse_usize(params[4]) = None THEN Err("Fourth problem line parameter invalid")
        ELSE parse_clauses(text, problem_line.pos, parse_usize(params[3])[1],
                           parse_usize(params[4])[1], overflow_checks)

\* Formula::parse_dimacs
parse_dimacs(text, overflow_checks) ==
    LET problem_line == find_problem_line(text, 1)
        params       == split_whitespace(problem_line.line)
    IN  IF ~problem_line.found THEN Err("Missing problem line")
        ELSE IF Len(params) # 4 THEN Err("Wrong number of parameters in problem line")
        ELSE IF params[1] # <<"p">> THEN Err("Invalid problem line")
        ELSE IF params[2] # <<"c", "n", "f">>
        THEN Err("Only cnf-formatted inputs are currently allowed")
        ELSE IF parse_usize(params[3]) = None THEN Err("Third problem line parameter invalid")
        ELSE IF parse_usize(params[4]) = None THEN Err("Fourth problem line parameter invalid")
        ELSE parse_clauses(text, problem_line.pos, parse_usize(params[3])[1],
                           parse_usize(params[4])[1], overflow_checks)

\* ------------------------------------------------------------------ standalone
\* The standalone solver of src/solver.rs.  Its Formula is a record with the
\* fields clauses (each a Clause), assignment, clause_indices, assign_history
\* and next_literal_id.  The search state threaded through its calls is a
\* record [f, forced]: the Formula, and the record of the cascaded calls of
\* inner made so far, each [lit, clause_idx, implied] with implied telling
\* whether every other literal of the clause was falsified when inner(lit)
\* was called for it.  forced is an observation; the program does not hold it.

\* Formula::parse_dimacs of src/solver.rs, the loop over the tokens of one
\* clause string from the k-th token on; each literal is indexed as it is
\* pushed, before a later token can discard the clause
RECURSIVE standalone_parse_clause(_, _, _, _, _, _)
standalone_parse_clause(f, tokens, k, clause, clause_idx, overflow_checks) ==
    IF k > Len(tokens) THEN Ok([tautology |-> FALSE, clause |-> clause, f |-> f])
    ELSE IF parse_isize(tokens[k]) = None THEN Err(illegal_variable(tokens[k]))
    ELSE LET lit == from_var(parse_isize(tokens[k])[1], overflow_checks)
         IN  IF lit.tag # "Ok" THEN lit
             ELSE IF Contains(clause, Not(lit.value))
             THEN Ok([tautology |-> TRUE, clause |-> clause, f |-> f])
             ELSE IF lit.value.id >= Len(f.clause_indices)
             THEN Panic("index out of bounds")
             ELSE standalone_parse_clause(
                     [f EXCEPT !.clause_indices[lit.value.id + 1] =
                                   Append(@, <<clause_idx, lit.value.negated>>)],
                     tokens, k + 1, Append(clause, lit.value), clause_idx,
                     overflow_checks)

\* Formula::parse_dimacs of src/solver.rs, the 'outer loop from clause_idx on
RECURSIVE standalone_clause_loop(_, _, _, _, _)
standalone_clause_loop(f, pieces, clause_idx, num_clauses, overflow_checks) ==
    IF clause_idx >= num_clauses \/ clause_idx >= Len(pieces) THEN Ok(f)
    ELSE LET c == standalone_parse_clause(f, split_whitespace(pieces[clause_idx + 1]),
                                          1, << >>, clause_idx, overflow_checks)
         IN  IF c.tag # "Ok" THEN c
             ELSE IF c.value.tautology
             THEN standalone_clause_loop(c.value.f, pieces, clause_idx + 1,
                                         num_clauses, overflow_checks)
             ELSE standalone_clause_loop(
                     [c.value.f EXCEPT !.clauses = Append(@, c.value.clause)],
                     pieces, clause_idx + 1, num_clauses, overflow_checks)

\* The Formula that parse_dimacs of src/solver.rs constructs
standalone_Formula_new(num_vars) ==
    [clauses         |-> << >>,
     assignment      |-> Assignment_new(num_vars),
     clause_indices  |-> [id \in 1..num_vars |-> << >>],
     assign_history  |-> << >>,
     next_literal_id |-> 0]

\* Formula::parse_dimacs of src/solver.rs, from the clause section on
standalone_parse_clauses(text, pos, num_vars, num_clauses, overflow_checks) ==
    LET pieces == split_space_zero(trim_end(SubSeq(text, pos, Len(text))))
        r      == standalone_clause_loop(standalone_Formula_new(num_vars), pieces, 0,
                                         num_clauses, overflow_checks)
    IN  IF r.tag # "Ok" THEN r
        ELSE IF Len(pieces) <= num_clauses THEN Err("Not enough clauses")
        ELSE IF pieces[num_clauses + 1] = << >> THEN r
        ELSE Err("Too many clauses")

\* Formula::parse_dimacs of src/solver.rs
standalone_parse_dimacs(text, overflow_checks) ==
    LET problem_line == find_problem_line(text, 1)
        params       == split_whitespace(problem_line.line)
    IN  IF ~problem_line.found THEN Err("Missing problem line")
        ELSE IF Len(params) # 4 \/ params[1] # <<"p">>
        THEN Err("Invalid/Missing problem line")
        ELSE IF params[2] # <<"c", "n", "f">>
        THEN Err("Only cnf-formatted inputs are currently supported")
        ELSE IF parse_usize(params[3]) = None THEN Err("Third problem line parameter invalid")
        ELSE IF parse_usize(params[4]) = None THEN Err("Fourth problem line parameter invalid")
        ELSE standalone_parse_clauses(text, problem_line.pos, parse_usize(params[3])[1],
                                      parse_usize(params[4])[1], overflow_checks)

\* Assignment::id_assigned
id_assigned(assignment, id) == assignment[id + 1] # None

\* Formula::solved of src/solver.rs, with Clause::solved
standalone_solved(f) ==
    \A k \in 1..Len(f.clauses) :
        \E j \in 1..Len(f.clauses[k]) : assigned(f.assignment, f.clauses[k][j])

\* Formula::unsolvable of src/solver.rs, with Clause::unsolvable
standalone_unsolvable(f) ==
    \E k \in 1..Len(f.clauses) :
        \A j \in 1..Len(f.clauses[k]) : assigned(f.assignment, Not(f.clauses[k][j]))

\* Formula::next_un_assigned of src/solver.rs: the search from id on
RECURSIVE standalone_next_un_assigned_from(_, _)
standalone_next_un_assigned_from(f, id) ==
    IF id >= Len(f.assignment) THEN Panic("index out of bounds")
    ELSE IF f.assignment[id + 1] = None THEN Ok(Literal(id, FALSE))
    ELSE standalone_next_un_assigned_from(f, id + 1)

\* Formula::next_un_assigned of src/solver.rs
standalone_next_un_assigned(f) == standalone_next_un_assigned_from(f, f.next_literal_id)

\* Formula::assign::inner of src/solver.rs and its for loop from idx on.
\* count is the number of literals of the clause whose variable is
\* unassigned, unit_lit the last of them (the fold keeps the last).
RECURSIVE standalone_inner(_, _), standalone_inner_loop(_, _, _)
standalone_inner(s, lit) ==
    standalone_inner_loop(
        [s EXCEPT !.f.assignment[lit.id + 1] = Some(lit.negated),
                  !.f.assign_history[Len(s.f.assign_history)] = Append(@, lit)],
        lit, 0)

standalone_inner_loop(s, lit, idx) ==
    IF idx >= Len(s.f.clause_indices[lit.id + 1]) THEN Ok(s)
    ELSE LET clause_idx == s.f.clause_indices[lit.id + 1][idx + 1][1]
             negated    == s.f.clause_indices[lit.id + 1][idx + 1][2]
         IN  IF clause_idx >= Len(s.f.clauses) THEN Panic("index out of bounds")
             ELSE IF negated # lit.negated
             THEN LET clause     == s.f.clauses[clause_idx + 1]
                      unassigned == {j \in 1..Len(clause) :
                                        ~id_assigned(s.f.assignment, clause[j].id)}
                      count      == Cardinality(unassigned)
                      last       == CHOOSE j \in unassigned : \A i \in unassigned : i <= j
                      unit_lit   == clause[last]
                      implied    == \A j \in 1..Len(clause) :
                                        j # last => assigned(s.f.assignment, Not(clause[j]))
                  IN  IF count = 1
                      THEN LET r == standalone_inner(
                                       [s EXCEPT !.forced =
                                            Append(@, [lit        |-> unit_lit,
                                                       clause_idx |-> clause_idx,
                                                       implied    |-> implied])],
                                       unit_lit)
                           IN  IF r.tag # "Ok" THEN r
                               ELSE standalone_inner_loop(r.value, lit, idx + 1)
                      ELSE standalone_inner_loop(s, lit, idx + 1)
             ELSE standalone_inner_loop(s, lit, idx + 1)

\* Formula::assign of src/solver.rs
standalone_assign(s, lit) ==
    standalone_inner([s EXCEPT !.f.next_literal_id = lit.id + 1,
                               !.f.assign_history = Append(@, << >>)],
                     lit)

\* Formula::un_assign of src/solver.rs
standalone_un_assign(s, lit) ==
    IF Len(s.f.assign_history) = 0
    THEN Panic("called Option::unwrap() on a None value")
    ELSE LET group == s.f.assign_history[Len(s.f.assign_history)]
             ids   == {group[k].id : k \in 1..Len(group)}
         IN  Ok([s EXCEPT !.f.next_literal_id = lit.id,
                          !.f.assign_history = SubSeq(@, 1, Len(@) - 1),
                          !.f.assignment = [v \in 1..Len(@) |->
                                               IF (v - 1) \in ids THEN None ELSE @[v]]])

\* Formula::dpll of src/solver.rs: Ok([res, s]) with the value it returns
\* and the state it leaves, or the panic that ends it
RECURSIVE standalone_dpll(_)
standalone_dpll(s) ==
    IF standalone_unsolvable(s.f) THEN Ok([res |-> FALSE, s |-> s])
    ELSE IF standalone_solved(s.f) THEN Ok([res |-> TRUE, s |-> s])
    ELSE LET next == standalone_next_un_assigned(s.f)
         IN  IF next.tag # "Ok" THEN next
             ELSE LET a1 == standalone_assign(s, next.value)
                      d1 == standalone_dpll(a1.value)
                      u1 == standalone_un_assign(d1.value.s, next.value)
                      a2 == standalone_assign(u1.value, Not(next.value))
                      d2 == standalone_dpll(a2.value)
                      u2 == standalone_un_assign(d2.value.s, Not(next.value))
                  IN  IF a1.tag # "Ok" THEN a1
                      ELSE IF d1.tag # "Ok" \/ d1.value.res THEN d1
                      ELSE IF u1.tag # "Ok" THEN u1
                      ELSE IF a2.tag # "Ok" THEN a2
                      ELSE IF d2.tag # "Ok" \/ d2.value.res THEN d2
                      ELSE IF u2.tag # "Ok" THEN u2
                      ELSE Ok([res |-> FALSE, s |-> u2.value])

\* ------------------------------------------------------------------ inputs

\* The decimal text of a number below ten
Num(n) == <<Digits[n + 1]>>

\* A DIMACS variable reference: k, or -k
Var(v) == IF v < 0 THEN <<"-">> \o Num(-v) ELSE Num(v)

\* A clause as DIMACS writes it: its references, then the terminator 0
RECURSIVE ClauseText(_)
ClauseText(c) ==
    IF Len(c) = 0 THEN <<"0", "\n">>
    ELSE Var(c[1]) \o <<" ">> \o ClauseText(Tail(c))

RECURSIVE ClausesText(_)
ClausesText(cs) == IF Len(cs) = 0 THEN << >> ELSE ClauseText(cs[1]) \o ClausesText(Tail(cs))

\* The problem line
ProblemLine(num_vars, num_clauses) ==
    <<"p", " ", "c", "n", "f", " ">> \o Num(num_vars) \o <<" ">> \o Num(num_clauses) \o <<"\n">>

\* A DIMACS file of num_vars variables and the clauses cs
Dimacs(num_vars, cs) == ProblemLine(num_vars, Len(cs)) \o ClausesText(cs)

Abs(v) == IF v < 0 THEN -v ELSE v

\* A clause that holds a variable and its negation
Tautological(c) == \E i, j \in 1..Len(c) : c[i] = -c[j]

\* The clauses over num_vars variables of at most max_len literals: references
\* to distinct variables in increasing order, and v -v
ClausePool(num_vars, max_len) ==
    LET refs == (-num_vars..num_vars) \ {0}
    IN  {c \in UNION {[1..n -> refs] : n \in 1..Min(num_vars, max_len)} :
            \A i, j \in 1..Len(c) : i < j => Abs(c[i]) < Abs(c[j])}
        \cup {<<v, -v>> : v \in 1..Min(num_vars, max_len - 1)}

\* The number of literal occurrences of a list of clauses
RECURSIVE Occurrences(_)
Occurrences(cs) == IF Len(cs) = 0 THEN 0 ELSE Len(cs[1]) + Occurrences(Tail(cs))

\* The scenarios of the specification; the formula over two variables that
\* excludes every assignment; a formula that both values of its first
\* variable refute; a tautological clause before two clauses of two literals,
\* the first with the positive or the negative literal of the first variable;
\* a formula whose first decision meets a contradiction in a cascade before
\* its loop has reached a later clause; a unit clause and two clauses that
\* refute the positive literal of the second variable
Scenarios ==
    {[num_vars |-> 1, clauses |-> <<<<1>>>>],
     [num_vars |-> 1, clauses |-> <<<<1>>, <<-1>>>>],
     [num_vars |-> 2, clauses |-> <<<<1, 2>>, <<-1, 2>>>>],
     [num_vars |-> 3, clauses |-> <<<<1, 2, 3>>, <<-1, -2>>, <<-1, -3>>>>],
     [num_vars |-> 2, clauses |-> << >>],
     [num_vars |-> 2, clauses |-> <<<<1, 2>>, <<1, -2>>, <<-1, 2>>, <<-1, -2>>>>],
     [num_vars |-> 3, clauses |-> <<<<-1, 2>>, <<-1, -2>>, <<1, 3>>, <<1, -3>>>>],
     [num_vars |-> 3, clauses |-> <<<<1, -1>>, <<1, 2>>, <<2, 3>>>>],
     [num_vars |-> 3, clauses |-> <<<<1, -1>>, <<-1, 2>>, <<2, 3>>>>],
     [num_vars |-> 3, clauses |-> <<<<-1, 2>>, <<1, 3>>, <<-1, -2>>>>],
     [num_vars |-> 3, clauses |-> <<<<1>>, <<-2, 3>>, <<-2, -3>>>>]}

\* Formulas for the standalone solver beyond MaxSize: a clause of three
\* literals with two unit clauses; the third scenario of the specification;
\* the formula over two variables that excludes every assignment
StandaloneScenarios ==
    {[num_vars |-> 3, clauses |-> <<<<1, -2, 3>>, <<2>>, <<-3>>>>],
     [num_vars |-> 3, clauses |-> <<<<1, 2, 3>>, <<-1, -2>>, <<-1, -3>>>>],
     [num_vars |-> 2, clauses |-> <<<<1, 2>>, <<1, -2>>, <<-1, 2>>, <<-1, -2>>>>]}

RECURSIVE WithoutTautologies(_)
WithoutTautologies(cs) ==
    IF Len(cs) = 0 THEN << >>
    ELSE IF Tautological(cs[1]) THEN WithoutTautologies(Tail(cs))
    ELSE <<cs[1]>> \o WithoutTautologies(Tail(cs))

\* The characters of the enumerated raw clause sections
RawAlphabet == {"0", "1", "-", " ", "\n"}

\* Raw inputs: a problem line for one variable and up to two clauses, then
\* any short text
RawInputs ==
    {ProblemLine(1, n) \o body :
        n \in 0..2,
        body \in UNION {[1..k -> RawAlphabet] : k \in 0..RawLen}}

\* Raw inputs longer than RawLen: a second terminator after the declared
\* clause; two clauses run together; a terminator on a line of its own; a
\* token that is no number after a tautology; a negative zero
RawScenarios ==
    { ProblemLine(1, 1) \o <<"1", " ", "0", " ", "0", "\n">>,
      ProblemLine(1, 2) \o <<"1", " ", "0", "1", " ", "0", "\n">>,
      ProblemLine(1, 1) \o <<"1", "\n", "0", "\n">>,
      ProblemLine(1, 1) \o <<"1", " ", "-", "1", " ", "-", " ", "0", "\n">>,
      ProblemLine(1, 1) \o <<"-", "0", " ", "0", "\n">> }

\* The tokens of the enumerated problem lines
HeaderTokens == {<<"p">>, <<"c", "n", "f">>, <<"1">>, <<"x">>}

\* Tokens separated by single spaces
RECURSIVE JoinTokens(_)
JoinTokens(ts) ==
    IF Len(ts) = 0 THEN << >>
    ELSE IF Len(ts) = 1 THEN ts[1]
    ELSE ts[1] \o <<" ">> \o JoinTokens(Tail(ts))

\* Inputs that vary the problem line: no line at all, comment lines only, and
\* any line of up to HeaderLen tokens, after a comment line or not, before
\* the clause 1
HeaderInputs ==
    { << >>, <<"c", "\n">>, <<"c", " ", "x", "\n", "c">> }
    \cup {comment \o JoinTokens(ts) \o <<"\n", "1", " ", "0", "\n">> :
            comment \in {<< >>, <<"c", " ", "x", "\n">>},
            ts \in UNION {[1..k -> HeaderTokens] : k \in 0..HeaderLen}}

\* Inputs with other whitespace than spaces and line feeds: lines that end
\* with a carriage return and a line feed, after a comment line or not; such
\* lines with a token that is no number; a carriage return without a line
\* feed, which ends no line; a form feed between the tokens of a clause and a
\* vertical tab after them
LineEndInputs ==
    { <<"p", " ", "c", "n", "f", " ", "1", " ", "1", "\r", "\n", "1", " ", "0", "\r", "\n">>,
      <<"c", " ", "x", "\r", "\n",
        "p", " ", "c", "n", "f", " ", "1", " ", "1", "\r", "\n", "1", " ", "0", "\r", "\n">>,
      <<"p", " ", "c", "n", "f", " ", "1", " ", "1", "\r", "\n", "1", " ", "x", " ", "0", "\r", "\n">>,
      <<"p", " ", "c", "n", "f", " ", "1", " ", "1", "\r", "1", " ", "0", "\n">>,
      <<"p", "\t", "c", "n", "f", "\f", "1", " ", "1", "\n", "1", "\f", "0", "", "\n">> }

\* ------------------------------------------------------------------ state

VARIABLES
    cnf,            \* Some([num_vars, clauses]): the formula the file is written
                    \* from; None for a raw input
    input,          \* the text of the file given to parse_dimacs
    pending,        \* Some(text): the same file without its tautological
                    \* clauses, to be solved next; None otherwise
    first_outcome,  \* the outcome for the file solved before this one, or ""
    pc,             \* "write" (the file is being written), "parse", "dpll" (a
                    \* call of dpll begins), "ret" (a call of dpll has returned
                    \* res), "done"; for the standalone solver "solve" (solve
                    \* is about to be called)
    formula,        \* the Formula; None before parse_dimacs has returned one;
                    \* for the standalone solver its search state [f, forced]
    stack,          \* the active calls of dpll that have decided: [next, second],
                    \* second once !next has been assigned
    res,            \* the value the last call of dpll returned
    outcome,        \* "" while running; "Err" (parse_dimacs returned Err),
                    \* "ParsePanic", "SolvePanic", "Some", "None" (solve returned)
    msg,            \* the message of the Err or of the panic
    result          \* the Option<Assignment> that solve returned

vars == <<cnf, input, pending, first_outcome, pc, formula, stack, res, outcome, msg,
          result>>

\* Either a file is about to be written, for some number of variables or for
\* a scenario, or the file is a raw input or the problem line of three tokens
Init ==
    /\ \/ /\ cnf \in {Some([num_vars |-> nv, clauses |-> << >>]) : nv \in 1..(MaxSize - 1)}
                     \cup {Some(scenario) : scenario \in Scenarios}
          /\ input = << >>
          /\ pc = "write"
       \/ /\ cnf = None
          /\ input \in RawInputs \cup RawScenarios \cup HeaderInputs \cup LineEndInputs
                            \cup {<<"p", " ", "c", "n", "f", " ", "1", "\n">>}
          /\ pc = "parse"
    /\ pending = None
    /\ first_outcome = ""
    /\ formula = None
    /\ stack = << >>
    /\ res = FALSE
    /\ outcome = ""
    /\ msg = ""
    /\ result = None

\* The environment: one more clause for the file, while the formula's
\* variables and literal occurrences sum to MaxSize at most
AddClause ==
    /\ pc = "write"
    /\ \E c \in ClausePool(cnf[1].num_vars,
                           MaxSize - cnf[1].num_vars - Occurrences(cnf[1].clauses)) :
          cnf' = Some([cnf[1] EXCEPT !.clauses = Append(@, c)])
    /\ UNCHANGED <<input, pending, first_outcome, pc, formula, stack, res, outcome, msg,
                   result>>

\* The environment: the file is written, and with it the file without its
\* tautological clauses, to be solved after it
WriteFile ==
    /\ pc = "write"
    /\ input' = Dimacs(cnf[1].num_vars, cnf[1].clauses)
    /\ pending' = IF \E k \in 1..Len(cnf[1].clauses) : Tautological(cnf[1].clauses[k])
                  THEN Some(Dimacs(cnf[1].num_vars, WithoutTautologies(cnf[1].clauses)))
                  ELSE None
    /\ pc' = "parse"
    /\ UNCHANGED <<cnf, first_outcome, formula, stack, res, outcome, msg, result>>

\* The thread ends: parse_dimacs returned Err, or a panic unwound main.
\* formula keeps the value it had when the failing call began.
Abort(r, panicked) ==
    /\ pc' = "done"
    /\ outcome' = IF r.tag = "Err" THEN "Err" ELSE panicked
    /\ msg' = r.msg
    /\ UNCHANGED <<cnf, input, pending, first_outcome, formula, stack, res, result>>

\* main: Formula::parse_dimacs(file), in a build with or without overflow checks
Parse ==
    /\ pc = "parse"
    /\ \E overflow_checks \in BOOLEAN :
          LET r == parse_dimacs(input, overflow_checks)
          IN  IF r.tag = "Ok"
              THEN /\ formula' = r.value
                   /\ pc' = "dpll"
                   /\ UNCHANGED <<cnf, input, pending, first_outcome, stack, res, outcome,
                                  msg, result>>
              ELSE Abort(r, "ParsePanic")

\* A dpll that returns true while one clause is still unsatisfied
DpllSat_early ==
    /\ pc = "dpll"
    /\ formula.remaining_clauses <= 1
    /\ pc' = "ret"
    /\ res' = TRUE
    /\ UNCHANGED <<cnf, input, pending, first_outcome, formula, stack, outcome, msg, result>>

\* dpll: remaining_clauses == 0, return true
DpllSat ==
    /\ pc = "dpll"
    /\ formula.remaining_clauses = 0
    /\ pc' = "ret"
    /\ res' = TRUE
    /\ UNCHANGED <<cnf, input, pending, first_outcome, formula, stack, outcome, msg, result>>

\* dpll: unsolvable, return false
DpllUnsat ==
    /\ pc = "dpll"
    /\ formula.remaining_clauses # 0
    /\ formula.unsolvable
    /\ pc' = "ret"
    /\ res' = FALSE
    /\ UNCHANGED <<cnf, input, pending, first_outcome, formula, stack, outcome, msg, result>>

\* dpll: next = next_un_assigned(); assign(next); then the call self.dpll()
DpllDecide ==
    /\ pc = "dpll"
    /\ formula.remaining_clauses # 0
    /\ ~formula.unsolvable
    /\ LET next == next_un_assigned(formula)
       IN  IF next.tag # "Ok" THEN Abort(next, "SolvePanic")
           ELSE LET r == assign(formula, next.value)
                IN  IF r.tag # "Ok" THEN Abort(r, "SolvePanic")
                    ELSE /\ formula' = r.value
                         /\ stack' = Append(stack, [next |-> next.value, second |-> FALSE])
                         /\ UNCHANGED <<cnf, input, pending, first_outcome, pc, res, outcome,
                                        msg, result>>

\* dpll: the call self.dpll() returned true, on either branch: return true
RetTrue ==
    /\ pc = "ret"
    /\ res
    /\ Len(stack) > 0
    /\ stack' = SubSeq(stack, 1, Len(stack) - 1)
    /\ UNCHANGED <<cnf, input, pending, first_outcome, pc, formula, res, outcome, msg, result>>

\* dpll: the first self.dpll() returned false: un_assign(next); assign(!next);
\* then the second call self.dpll()
RetFalseFirst ==
    /\ pc = "ret"
    /\ ~res
    /\ Len(stack) > 0
    /\ ~stack[Len(stack)].second
    /\ LET next == stack[Len(stack)].next
           u    == un_assign(formula, next)
       IN  IF u.tag # "Ok" THEN Abort(u, "SolvePanic")
           ELSE LET r == assign(u.value, Not(next))
                IN  IF r.tag # "Ok" THEN Abort(r, "SolvePanic")
                    ELSE /\ formula' = r.value
                         /\ stack' = [stack EXCEPT ![Len(stack)].second = TRUE]
                         /\ pc' = "dpll"
                         /\ UNCHANGED <<cnf, input, pending, first_outcome, res, outcome,
                                        msg, result>>

\* dpll: the second self.dpll() returned false: un_assign(!next); return false
RetFalseSecond ==
    /\ pc = "ret"
    /\ ~res
    /\ Len(stack) > 0
    /\ stack[Len(stack)].second
    /\ LET u == un_assign(formula, Not(stack[Len(stack)].next))
       IN  IF u.tag # "Ok" THEN Abort(u, "SolvePanic")
           ELSE /\ formula' = u.value
                /\ stack' = SubSeq(stack, 1, Len(stack) - 1)
                /\ UNCHANGED <<cnf, input, pending, first_outcome, pc, res, outcome, msg,
                               result>>

\* solve: the outermost dpll returned: Some(self.assignment) or None
SolveReturn ==
    /\ pc = "ret"
    /\ Len(stack) = 0
    /\ pc' = "done"
    /\ outcome' = IF res THEN "Some" ELSE "None"
    /\ result' = IF res THEN Some(formula.assignment) ELSE None
    /\ UNCHANGED <<cnf, input, pending, first_outcome, formula, stack, res, msg>>

\* The program is run again, on the file without the tautological clauses
RunPending ==
    /\ pc = "done"
    /\ pending # None
    /\ input' = pending[1]
    /\ UNCHANGED cnf
    /\ pending' = None
    /\ first_outcome' = outcome
    /\ pc' = "parse"
    /\ formula' = None
    /\ stack' = << >>
    /\ res' = FALSE
    /\ outcome' = ""
    /\ msg' = ""
    /\ result' = None

Next ==
    \/ AddClause
    \/ WriteFile
    \/ Parse
    \/ DpllSat
    \/ DpllUnsat
    \/ DpllDecide
    \/ RetTrue
    \/ RetFalseFirst
    \/ RetFalseSecond
    \/ SolveReturn
    \/ RunPending

Spec == Init /\ [][Next]_vars

\* ------------------------------------------------------------------ standalone
\* The program of src/solver.rs run on a file written from a formula, or on
\* one of the inputs of LineEndInputs

InitStandalone ==
    /\ \/ /\ cnf \in {Some([num_vars |-> nv, clauses |-> << >>]) : nv \in 1..(MaxSize - 1)}
                     \cup {Some(scenario) : scenario \in StandaloneScenarios}
          /\ input = << >>
          /\ pc = "write"
       \/ /\ cnf = None
          /\ input \in LineEndInputs
          /\ pc = "parse"
    /\ pending = None
    /\ first_outcome = ""
    /\ formula = None
    /\ stack = << >>
    /\ res = FALSE
    /\ outcome = ""
    /\ msg = ""
    /\ result = None

\* Formula::parse_dimacs(file) of src/solver.rs, in a build with or without
\* overflow checks
StandaloneParse ==
    /\ pc = "parse"
    /\ \E overflow_checks \in BOOLEAN :
          LET r == standalone_parse_dimacs(input, overflow_checks)
          IN  IF r.tag = "Ok"
              THEN /\ formula' = [f |-> r.value, forced |-> << >>]
                   /\ pc' = "solve"
                   /\ UNCHANGED <<cnf, input, pending, first_outcome, stack, res, outcome,
                                  msg, result>>
              ELSE Abort(r, "ParsePanic")

\* Formula::solve of src/solver.rs
StandaloneSolve ==
    /\ pc = "solve"
    /\ LET d == standalone_dpll(formula)
       IN  IF d.tag # "Ok" THEN Abort(d, "SolvePanic")
           ELSE /\ formula' = d.value.s
                /\ res' = d.value.res
                /\ outcome' = IF d.value.res THEN "Some" ELSE "None"
                /\ result' = IF d.value.res THEN Some(d.value.s.f.assignment) ELSE None
                /\ pc' = "done"
                /\ UNCHANGED <<cnf, input, pending, first_outcome, stack, msg>>

NextStandalone ==
    \/ AddClause
    \/ WriteFile
    \/ StandaloneParse
    \/ StandaloneSolve

SpecStandalone == InitStandalone /\ [][NextStandalone]_vars

\* ------------------------------------------------------------------ claims

\* The clauses of the file now being solved, for a file written from a formula
FileClauses ==
    IF first_outcome = "" THEN cnf[1].clauses ELSE WithoutTautologies(cnf[1].clauses)

\* The truth table: some assignment of the variables makes every clause of
\* the file true
Satisfiable ==
    \E a \in [1..cnf[1].num_vars -> BOOLEAN] :
        \A k \in 1..Len(FileClauses) :
            \E i \in 1..Len(FileClauses[k]) :
                LET v == FileClauses[k][i]
                IN  IF v > 0 THEN a[v] ELSE ~a[-v]

\* A file written from a formula has been parsed and solve has returned or
\* the program has ended otherwise
WellFormedDone == cnf # None /\ pc = "done"

\* C1. Soundness: whenever solve returns an Assignment, every retained clause
\* has a literal whose variable the Assignment gives the literal's polarity.
C1_Soundness ==
    outcome = "Some" =>
        \A k \in 1..Len(formula.clauses) :
            \E i \in 1..Len(formula.clauses[k][1]) :
                assigned(result[1], formula.clauses[k][1][i])

\* C1, witness: solve returned an Assignment that negates the first variable,
\* for two or more clauses of which none is a unit clause: the search decided
\* the variable, failed on its positive literal and backtracked.
C1_Witness ==
    /\ outcome = "Some"
    /\ Len(formula.clauses) >= 2
    /\ \A k \in 1..Len(formula.clauses) : Len(formula.clauses[k][1]) >= 2
    /\ result[1][1] = Some(TRUE)

\* C2. Completeness: for a formula with no satisfying assignment, solve
\* reports unsatisfiable (returns None).
C2_Completeness == (WellFormedDone /\ ~Satisfiable) => outcome = "None"

\* C3. For a formula with a satisfying assignment, solve returns an Assignment.
C3_FindsAssignment == (WellFormedDone /\ Satisfiable) => outcome = "Some"

\* C4. Termination without failure: once parse_dimacs has produced a Formula,
\* solve ends with Some or None and no step panics or exhausts the stack.
C4_NoFailure == outcome # "SolvePanic"

\* C7. Whenever solve returns an Assignment, every variable id in
\* [0, num_vars) holds a polarity.
C7_Complete ==
    outcome = "Some" => \A id \in 1..Len(result[1]) : result[1][id] # None

\* assign(lit) then un_assign(lit) from f, when both return, give back the
\* assignment, remaining_clauses, unsolvable and the satisfied flags of f
Restores(f, lit) ==
    LET a == assign(f, lit)
        u == un_assign(a.value, lit)
    IN  (a.tag = "Ok" /\ u.tag = "Ok") =>
            /\ u.value.assignment = f.assignment
            /\ u.value.remaining_clauses = f.remaining_clauses
            /\ u.value.unsolvable = f.unsolvable
            /\ u.value.clauses = f.clauses

\* dpll is about to decide: neither of its two returns applies
Deciding == pc = "dpll" /\ formula.remaining_clauses # 0 /\ ~formula.unsolvable

\* dpll is about to undo its positive decision and assign the negative one
Flipping == pc = "ret" /\ ~res /\ Len(stack) > 0 /\ ~stack[Len(stack)].second

\* C5. Idempotent restore: where dpll assigns a decision literal, the lowest
\* unassigned variable in either polarity, assign(lit) followed by
\* un_assign(lit) restores assignment, remaining_clauses, unsolvable and the
\* per-clause satisfied flags.
C5_Restore ==
    /\ Deciding =>
          LET next == next_un_assigned(formula)
          IN  next.tag = "Ok" => Restores(formula, next.value)
    /\ Flipping =>
          LET next == stack[Len(stack)].next
              u    == un_assign(formula, next)
          IN  u.tag = "Ok" => Restores(u.value, Not(next))

\* C6. Cursor invariant: where dpll reads next_literal_id to choose the next
\* decision variable, every variable id below it is assigned.
C6_Cursor ==
    Deciding =>
        \A id \in 0..(formula.next_literal_id - 1) :
            id < Len(formula.assignment) => formula.assignment[id + 1] # None

\* C8. Tautology elimination: the file without its tautological clauses gets
\* the outcome the file with them got, and a file of tautological clauses
\* only is satisfiable.
C8_Tautologies ==
    /\ (pc = "done" /\ first_outcome # "") => outcome = first_outcome
    /\ (WellFormedDone /\ first_outcome = ""
            /\ \A k \in 1..Len(cnf[1].clauses) : Tautological(cnf[1].clauses[k]))
        => outcome = "Some"

\* parse_dimacs has returned or panicked
Parsed == pc \notin {"write", "parse"}

\* parse_dimacs returned a Formula
Accepted == pc \in {"dpll", "ret"} \/ outcome \in {"Some", "None", "SolvePanic"}

\* The problem line of the input is p cnf and two unsigned numbers
ProblemLineOk ==
    LET problem_line == find_problem_line(input, 1)
        params       == split_whitespace(problem_line.line)
    IN  /\ problem_line.found
        /\ Len(params) = 4
        /\ params[1] = <<"p">>
        /\ params[2] = <<"c", "n", "f">>
        /\ parse_usize(params[3]) # None
        /\ parse_usize(params[4]) # None

\* The number of clauses the problem line declares
DeclaredClauses == parse_usize(split_whitespace(find_problem_line(input, 1).line)[4])[1]

\* The text after the problem line
ClauseSection == SubSeq(input, find_problem_line(input, 1).pos, Len(input))

\* The whitespace-separated tokens of the clause section
SectionTokens == split_whitespace(ClauseSection)

\* The number of clause terminators: the tokens 0
Terminators == Cardinality({k \in 1..Len(SectionTokens) : SectionTokens[k] = <<"0">>})

\* Every token of the clause section is an integer
IntegerTokens == \A k \in 1..Len(SectionTokens) : parse_isize(SectionTokens[k]) # None

\* Nothing but whitespace follows the last terminator
EndsWithTerminator ==
    Len(SectionTokens) > 0 => SectionTokens[Len(SectionTokens)] = <<"0">>

\* C9. For a clause section of integers, parse_dimacs returns a Formula only
\* when exactly num_clauses terminators follow the problem line, with nothing
\* but whitespace after the last; with fewer it returns Err "Not enough
\* clauses", with more Err "Too many clauses".
C9_ClauseCount ==
    (Parsed /\ ProblemLineOk /\ IntegerTokens) =>
        /\ Accepted => (Terminators = DeclaredClauses /\ EndsWithTerminator)
        /\ Terminators < DeclaredClauses =>
              (outcome = "Err" /\ msg = "Not enough clauses")
        /\ Terminators > DeclaredClauses =>
              (outcome = "Err" /\ msg = "Too many clauses")

\* C10. A token of the clause section that is no number, or that is zero
\* without being the terminator 0, makes parse_dimacs return Err: it never
\* reaches Literal::from_var or the reverse index.
C10_BadToken ==
    (Parsed /\ ProblemLineOk
        /\ \E k \in 1..Len(SectionTokens) :
              \/ parse_isize(SectionTokens[k]) = None
              \/ parse_isize(SectionTokens[k]) = Some(0) /\ SectionTokens[k] # <<"0">>)
    => outcome = "Err"

\* C11. Problem line: when the first line that is no comment is missing or is
\* not the four tokens p, cnf, an unsigned number of variables and an
\* unsigned number of clauses, parse_dimacs returns Err and no Formula.
C11_ProblemLine ==
    (Parsed /\ ~ProblemLineOk) => (outcome = "Err" /\ formula = None)

\* C11, witness: the problem line of three tokens p cnf 1 was refused for its
\* number of parameters
C11_Witness ==
    /\ Parsed
    /\ input = <<"p", " ", "c", "n", "f", " ", "1", "\n">>
    /\ outcome = "Err"
    /\ msg = "Wrong number of parameters in problem line"
    /\ formula = None

\* C12. Reverse index: once parse_dimacs has returned a Formula, every entry
\* (i, p) of clause_indices[v] has i within the retained clauses and
\* clauses[i] holds the literal (v, p), and every literal of every retained
\* clause has its entry, also when tautological clauses were dropped before
\* later clauses.
C12_ReverseIndex ==
    formula # None =>
        /\ \A id \in 0..(Len(formula.clause_indices) - 1) :
              \A e \in 1..Len(formula.clause_indices[id + 1]) :
                  LET clause_idx == formula.clause_indices[id + 1][e][1]
                      negated    == formula.clause_indices[id + 1][e][2]
                  IN  /\ clause_idx < Len(formula.clauses)
                      /\ Contains(formula.clauses[clause_idx + 1][1], Literal(id, negated))
        /\ \A k \in 1..Len(formula.clauses) :
              \A j \in 1..Len(formula.clauses[k][1]) :
                  LET lit == formula.clauses[k][1][j]
                  IN  /\ lit.id < Len(formula.clause_indices)
                      /\ \E e \in 1..Len(formula.clause_indices[lit.id + 1]) :
                            formula.clause_indices[lit.id + 1][e] = <<k - 1, lit.negated>>

\* C13. Undo groups hold only new assignments: a literal is appended to an
\* undo group only while its variable is unassigned, so no variable occurs
\* twice in the groups of assign_history, and un_assign clears no variable
\* that an earlier, still active group assigned.
C13_NewAssignments ==
    formula # None =>
        \A g, h \in 1..Len(formula.assign_history) :
            \A i \in 1..Len(formula.assign_history[g]) :
                \A j \in 1..Len(formula.assign_history[h]) :
                    formula.assign_history[g][i].id = formula.assign_history[h][j].id
                        => (g = h /\ i = j)

\* A search node: a call of dpll begins
SearchNode == pc = "dpll"

\* The retained clauses (1-based positions) with no literal satisfied under
\* the current assignment
UnsatisfiedClauses ==
    {k \in 1..Len(formula.clauses) : ~solved(formula.clauses[k][1], formula)}

\* C14. Counter consistency: at every search node where unsolvable is false,
\* remaining_clauses is the number of retained clauses with no satisfied
\* literal and a clause's flag is true exactly when the clause is satisfied;
\* before any assignment remaining_clauses is the number of retained clauses.
C14_Counter ==
    /\ (SearchNode /\ ~formula.unsolvable) =>
          /\ formula.remaining_clauses = Cardinality(UnsatisfiedClauses)
          /\ \A k \in 1..Len(formula.clauses) :
                formula.clauses[k][2] <=> (k \notin UnsatisfiedClauses)
    /\ (SearchNode /\ formula.assign_history = << >>) =>
          formula.remaining_clauses = Len(formula.clauses)

\* The retained clauses (1-based positions) whose literals are all falsified
\* under the current assignment
ViolatedClauses ==
    {k \in 1..Len(formula.clauses) : num_literals(formula.clauses[k][1], formula) = 0}

\* C15. Contradiction flag: at every search node unsolvable is true exactly
\* when some retained clause has all of its literals falsified, so dpll picks
\* no decision variable while a clause is violated and abandons no branch in
\* which no clause is violated.
C15_Contradiction ==
    SearchNode => (formula.unsolvable <=> ViolatedClauses # {})

\* C16. Decision order: the variable dpll decides is the lowest-id variable
\* that is unassigned in the whole assignment; its positive literal is
\* assigned first, and the negative literal only once the positive branch
\* has returned false and has been undone.
C16_DecisionOrder ==
    /\ Deciding =>
          LET next == next_un_assigned(formula)
          IN  next.tag = "Ok" =>
                /\ ~next.value.negated
                /\ \A id \in 0..(next.value.id - 1) : formula.assignment[id + 1] # None
    /\ (SearchNode /\ Len(stack) > 0) =>
          LET top   == stack[Len(stack)]
              group == formula.assign_history[Len(formula.assign_history)]
          IN  /\ ~top.next.negated
              /\ group[1] = (IF top.second THEN Not(top.next) ELSE top.next)

\* The retained clauses (1-based positions) that are unsatisfied unit clauses:
\* exactly one literal is not falsified, and its variable is unassigned
PendingUnitClauses ==
    {k \in 1..Len(formula.clauses) :
        LET clause == formula.clauses[k][1]
            live   == ClauseIter(clause, formula)
        IN  /\ Cardinality(live) = 1
            /\ \A j \in live : formula.assignment[clause[j].id + 1] = None}

\* C17. Propagation fixpoint: at every search node where unsolvable is false,
\* after simplify, after a decision and after un_assign has restored an
\* earlier level, no retained clause is an unsatisfied unit clause.
C17_Fixpoint ==
    (SearchNode /\ ~formula.unsolvable) => PendingUnitClauses = {}

\* assign(lit) from f, when it returns with unsolvable set, returns the
\* Formula as it was when unsolvable was first set: nothing was assigned,
\* appended to the undo group or marked satisfied after that
StopsAtContradiction(f, lit) ==
    LET a == assign(f, lit)
    IN  (a.tag = "Ok" /\ a.value.unsolvable) => a.value = assign_until(f, lit).value

\* C18. Stop on contradiction: once a top-level assign call of dpll has set
\* unsolvable, the call assigns no further literal, appends nothing more to
\* the undo group and marks no further clause satisfied, at any level of the
\* cascade.
C18_StopOnContradiction ==
    /\ Deciding =>
          LET next == next_un_assigned(formula)
          IN  next.tag = "Ok" => StopsAtContradiction(formula, next.value)
    /\ Flipping =>
          LET next == stack[Len(stack)].next
              u    == un_assign(formula, next)
          IN  u.tag = "Ok" => StopsAtContradiction(u.value, Not(next))

\* The undo groups that simplify opened: one for each retained clause of one
\* literal
SimplifyGroups ==
    Cardinality({k \in 1..Len(formula.clauses) : Len(formula.clauses[k][1]) = 1})

\* The literal that the innermost open decision assigned last
OpenLiteral ==
    LET top == stack[Len(stack)]
    IN  IF top.second THEN Not(top.next) ELSE top.next

\* C19. Undo log is matched LIFO: at every search node assign_history holds
\* one group for each open decision and one for each call simplify made, the
\* last group begins with the literal of the innermost open decision, and
\* where dpll is about to call un_assign(lit) the log is not empty and its
\* last group begins with lit.
C19_Lifo ==
    /\ SearchNode =>
          Len(formula.assign_history) = Len(stack) + SimplifyGroups
    /\ (SearchNode /\ Len(stack) > 0) =>
          LET group == formula.assign_history[Len(formula.assign_history)]
          IN  Len(group) > 0 /\ group[1] = OpenLiteral
    /\ (pc = "ret" /\ ~res /\ Len(stack) > 0) =>
          /\ Len(formula.assign_history) > 0
          /\ LET group == formula.assign_history[Len(formula.assign_history)]
             IN  Len(group) > 0 /\ group[1] = OpenLiteral

\* C19, witness: after simplify had opened a group, the positive branch of a
\* decision has returned false and dpll is about to pop the group of the
\* decision, which holds the decision literal and a cascaded literal
C19_Witness ==
    /\ pc = "ret"
    /\ ~res
    /\ Len(stack) = 1
    /\ ~stack[1].second
    /\ SimplifyGroups = 1
    /\ Len(formula.assign_history) = 2
    /\ Len(formula.assign_history[2]) >= 2
    /\ formula.assign_history[2][1] = stack[1].next

\* C20. Standalone solver: whenever inner assigns a cascaded literal of a
\* clause, every other literal of that clause is falsified, so that solve
\* returns None only for a formula that no assignment satisfies.
C20_StandaloneImplied ==
    (pc = "done" /\ outcome \in {"Some", "None"}) =>
        /\ \A k \in 1..Len(formula.forced) : formula.forced[k].implied
        /\ outcome = "None" => ~Satisfiable

====
